---- MODULE Spec2Model ----
(***************************************************************************)
(* setupvar-builder: the IFR dump parser (main.py) and the script compiler  *)
(* (gui.py), as a state machine.                                            *)
(*                                                                          *)
(* A physical line of the dump is abstracted to what the code tests on it:  *)
(* whether it contains the extraction-mode marker, whether it contains a    *)
(* brace-enclosed token, whether it starts with 0x<hex>:, and the fields     *)
(* the six regular expressions of dict_population would capture from it.    *)
(* A logical record is the sequence of the texts of its lines; the patterns *)
(* are matched on the text of the start line, continuation lines are free   *)
(* text.                                                                    *)
(***************************************************************************)
EXTENDS Integers, Sequences, FiniteSets, TLC

VARIABLES
    pc,             \* position of the program: "idle", "reading", "aborted", "reduce"
    in_file,        \* the body lines of the open file read so far
    pf,             \* locals of parse_input_file while the file is being read
    nlines,         \* number of body lines read from the open file
    consumed,       \* the records dict_population has consumed so far (SpecReduce)
    dp,             \* locals of dict_population (SpecReduce: fed record by record)
    nrecords,       \* number of records fed to dict_population (SpecReduce)
    settings_none,  \* MainWindow.settings_dict is None
    settings_dict,  \* MainWindow.settings_dict (ordered: store -> offset -> entry)
    table_data,     \* MainWindow.table_data: rows [name, varstore, varoffset]
    options,        \* MyTableModel.options: per row the text of column 3 ("" = absent)
    widgets,        \* the index widget of column 3 of each row
    message,        \* the text of the last message box shown by show_message
    script          \* the file written by the last write_script

vars == <<pc, in_file, pf, nlines, consumed, dp, nrecords, settings_none,
          settings_dict, table_data, options, widgets, message, script>>

-----------------------------------------------------------------------------
(* Bounds of the model *)

MaxLines == 4       \* body lines read from one file
MaxRecords == 4     \* records fed to dict_population in SpecReduce

-----------------------------------------------------------------------------
(* Python values *)

\* Python's None, where a string is expected
NoneVal == "<None>"

\* mutant of Str: None is kept as it is
Str_keeps_none(x) == x

\* str(x): None prints as "None"
Str(x) == IF x = NoneVal THEN "None" ELSE x

\* truth value of a string-or-None
Truthy(x) == x # NoneVal /\ x # ""

HexDigitsUpper == <<"0","1","2","3","4","5","6","7","8","9","A","B","C","D","E","F">>
HexDigitsLower == <<"0","1","2","3","4","5","6","7","8","9","a","b","c","d","e","f">>

RECURSIVE HexDigitString(_, _)
HexDigitString(n, digits) ==
    IF n < 16 THEN digits[n + 1]
    ELSE HexDigitString(n \div 16, digits) \o digits[(n % 16) + 1]

\* hex(n), n >= 0
hex(n) == "0x" \o HexDigitString(n, HexDigitsLower)

\* f"0x{hex(n)[2:].upper()}", n >= 0
HexUpper(n) == "0x" \o HexDigitString(n, HexDigitsUpper)

\* an insertion-ordered dict with string keys: a sequence of [k, v]
MapIndex(m, k) ==
    IF \E i \in 1..Len(m) : m[i].k = k
    THEN CHOOSE i \in 1..Len(m) : m[i].k = k
    ELSE 0

MapHas(m, k) == MapIndex(m, k) # 0

MapGet(m, k, dflt) == IF MapHas(m, k) THEN m[MapIndex(m, k)].v ELSE dflt

\* m[k] = v: a new key goes last, an existing key keeps its place
MapSet(m, k, v) ==
    IF MapHas(m, k)
    THEN [m EXCEPT ![MapIndex(m, k)].v = v]
    ELSE Append(m, [k |-> k, v |-> v])

MapKeys(m) == [i \in 1..Len(m) |-> m[i].k]

-----------------------------------------------------------------------------
(* Records of the dump: the fields the patterns capture *)

Blank ==
    [kind |-> "text", sid |-> "", name |-> "", off |-> "", bits |-> 0,
     val |-> 0, flag |-> "", min |-> 0, max |-> 0]

VarStoreText(id, name) ==
    [Blank EXCEPT !.kind = "varstore", !.sid = id, !.name = name]

OneOfText(name, id, off, bits) ==
    [Blank EXCEPT !.kind = "oneof", !.name = name, !.sid = id, !.off = off,
                  !.bits = bits]

\* flag is ", Default" or "" (group 3 absent)
OneOfOptionText(name, val, flag) ==
    [Blank EXCEPT !.kind = "oneofoption", !.name = name, !.val = val,
                  !.flag = flag]

NumericText(name, id, off, bits, min, max) ==
    [Blank EXCEPT !.kind = "numeric", !.name = name, !.sid = id, !.off = off,
                  !.bits = bits, !.min = min, !.max = max]

\* flag is "Enabled" or "Disabled"
CheckBoxText(name, id, off, flag) ==
    [Blank EXCEPT !.kind = "checkbox", !.name = name, !.sid = id, !.off = off,
                  !.flag = flag]

DefaultText(val) == [Blank EXCEPT !.kind = "default", !.val = val]

\* a physical line
Line(marker, brace, hexline, text) ==
    [marker |-> marker, brace |-> brace, hex |-> hexline, text |-> text]

-----------------------------------------------------------------------------
(* main.py: parse_input_file *)

\* re.match(r"^0x[0-9a-fA-F]+:", line)
is_hex_line(line) == line.hex

\* pattern.search(line), pattern = \{.*\}
pattern_search(line) == line.brace

\* "Extraction mode: UEFI" in first_line
extraction_mode_in(first_line) == first_line.marker

\* the locals of parse_input_file before the file is opened
ParseInit ==
    [first_line |-> Line(FALSE, FALSE, FALSE, Blank), pattern_found |-> FALSE,
     parsed_input_file |-> <<>>, accumulator |-> <<>>]

\* mutant of parse_line: the brace pattern is searched on start lines only
parse_line_start_only(st, line) ==
    IF is_hex_line(line)
    THEN [st EXCEPT !.pattern_found = @ \/ pattern_search(line),
                    !.parsed_input_file =
                        IF st.accumulator # <<>>
                        THEN @ \o st.accumulator
                        ELSE @,
                    !.accumulator = << <<line.text>> >>]
    ELSE [st EXCEPT !.accumulator =
                        IF st.accumulator # <<>>
                        THEN [@ EXCEPT ![Len(@)] = Append(@, line.text)]
                        ELSE @]

\* mutant of parse_line: a start line drops the record before it
parse_line_drops_record(st, line) ==
    LET found == st.pattern_found \/ pattern_search(line) IN
    IF is_hex_line(line)
    THEN [st EXCEPT !.pattern_found = found,
                    !.accumulator = << <<line.text>> >>]
    ELSE [st EXCEPT !.pattern_found = found,
                    !.accumulator =
                        IF st.accumulator # <<>>
                        THEN [@ EXCEPT ![Len(@)] = Append(@, line.text)]
                        ELSE @]

\* one iteration of "for line in in_file"
parse_line(st, line) ==
    LET found == st.pattern_found \/ pattern_search(line) IN
    IF is_hex_line(line)
    THEN [st EXCEPT !.pattern_found = found,
                    !.parsed_input_file =
                        IF st.accumulator # <<>>
                        THEN @ \o st.accumulator
                        ELSE @,
                    !.accumulator = << <<line.text>> >>]
    ELSE [st EXCEPT !.pattern_found = found,
                    !.accumulator =
                        IF st.accumulator # <<>>
                        THEN [@ EXCEPT ![Len(@)] = Append(@, line.text)]
                        ELSE @]

\* after the loop: flush the accumulator, then the verbose check
parse_flush(st) ==
    IF st.accumulator # <<>>
    THEN st.parsed_input_file \o st.accumulator
    ELSE st.parsed_input_file

parse_return(st) == IF ~st.pattern_found THEN <<>> ELSE parse_flush(st)

InvalidFileMessage == "Invalid file"
VerboseMessage == "Use the \"verbose\" option of IFRExtractor"

\* the message box parse_input_file shows after the loop, "" for none
parse_message(st) == IF ~st.pattern_found THEN VerboseMessage ELSE ""

-----------------------------------------------------------------------------
(* The settings model: dict[str, dict[str, OneOfDict | NumericDict |       *)
(* CheckBoxDict]], insertion-ordered at both levels.  A key a TypedDict    *)
(* instance lacks is a has* flag that is FALSE.                             *)

\* the keys of an entry; hasSize, hasOptions, hasDefault say which are present
Entry(type, name) ==
    [type |-> type, name |-> name, hasSize |-> FALSE, size |-> "",
     min |-> 0, max |-> 0, hasOptions |-> FALSE, options |-> <<>>,
     hasDefault |-> FALSE, default |-> "", ndefault |-> 0]

\* {"type": "oneof", "name": ..., "size": ...}
OneOfDict(name, size) ==
    [Entry("oneof", name) EXCEPT !.hasSize = TRUE, !.size = size]

\* {"type": "numeric", "name": ..., "size": ..., "min": ..., "max": ...}
NumericDict(name, size, min, max) ==
    [Entry("numeric", name) EXCEPT !.hasSize = TRUE, !.size = size,
                                   !.min = min, !.max = max]

\* {"type": "checkbox", "name": ..., "default": ...}
CheckBoxDict(name, default) ==
    [Entry("checkbox", name) EXCEPT !.hasDefault = TRUE, !.default = default]

\* varstore in settings_dict
StoreIndex(d, varstore) ==
    IF \E i \in 1..Len(d) : d[i].k = varstore
    THEN CHOOSE i \in 1..Len(d) : d[i].k = varstore
    ELSE 0

\* varstore in settings_dict and varoffset in settings_dict[varstore]
DictHas(d, varstore, varoffset) ==
    /\ StoreIndex(d, varstore) # 0
    /\ MapHas(d[StoreIndex(d, varstore)].v, varoffset)

\* settings_dict[varstore][varoffset]
DictGet(d, varstore, varoffset) ==
    MapGet(d[StoreIndex(d, varstore)].v, varoffset, Entry("", ""))

\* if varstore not in settings_dict: settings_dict[varstore] = {}
\* settings_dict[varstore][varoffset] = entry
DictSet(d, varstore, varoffset, entry) ==
    LET d1 == IF StoreIndex(d, varstore) = 0
              THEN Append(d, [k |-> varstore, v |-> <<>>])
              ELSE d
        i == StoreIndex(d1, varstore)
    IN  [d1 EXCEPT ![i].v = MapSet(@, varoffset, entry)]

\* the (varstore, varoffset, entry) triples in the order of
\* "for varstore, data_1 in settings_dict.items(): for varoffset, data_2 in data_1.items()"
RECURSIVE DictItems(_)
DictItems(d) ==
    IF d = <<>> THEN <<>>
    ELSE [j \in 1..Len(d[1].v) |->
             [varstore |-> d[1].k, varoffset |-> d[1].v[j].k, e |-> d[1].v[j].v]]
         \o DictItems(Tail(d))

-----------------------------------------------------------------------------
(* main.py: dict_population *)

\* the value of the local "default": None, a formatted hex string or an int
DefaultNone == [t |-> "none", s |-> "", n |-> 0]
DefaultStr(s) == [t |-> "str", s |-> s, n |-> 0]
DefaultInt(n) == [t |-> "int", s |-> "", n |-> n]

\* the locals of dict_population before the loop
DictInit ==
    [varstores |-> <<>>, settings_dict |-> <<>>,
     oneof_name |-> NoneVal, oneof_varstore |-> NoneVal,
     oneof_varoffset |-> NoneVal,
     numeric_name |-> NoneVal, numeric_varstore |-> NoneVal,
     numeric_varoffset |-> NoneVal,
     last_oneof_name |-> NoneVal, default |-> DefaultNone,
     last_match |-> NoneVal, child_match |-> NoneVal]

\* the patterns are searched in the record; the fields are those of its start line
varstore_match(match) == match[1].kind = "varstore"
oneof_match(match) == match[1].kind = "oneof"
oneofoption_match(match) == match[1].kind = "oneofoption"
numeric_match(match) == match[1].kind = "numeric"
checkbox_match(match) == match[1].kind = "checkbox"
default_match(match) == match[1].kind = "default"

\* mutant of dict_oneof: a question met again keeps the default of the entry
\* it replaces
dict_oneof_keeps_default(st, m) ==
    LET oneof_name == m.name
        oneof_varstore == Str(MapGet(st.varstores, m.sid, NoneVal))
        oneof_varoffset == "0x" \o m.off
        oneof_size == hex(m.bits \div 8)
        old == IF DictHas(st.settings_dict, oneof_varstore, oneof_varoffset)
               THEN DictGet(st.settings_dict, oneof_varstore, oneof_varoffset)
               ELSE Entry("", "")
    IN  [st EXCEPT !.child_match = NoneVal,
                   !.oneof_name = oneof_name,
                   !.oneof_varstore = oneof_varstore,
                   !.oneof_varoffset = oneof_varoffset,
                   !.settings_dict =
                       DictSet(@, oneof_varstore, oneof_varoffset,
                               [OneOfDict(oneof_name, oneof_size)
                                    EXCEPT !.hasDefault = old.hasDefault,
                                           !.default = old.default]),
                   !.last_match = "oneof"]

\* elif oneof_match
dict_oneof(st, m) ==
    LET oneof_name == m.name
        oneof_varstore == Str(MapGet(st.varstores, m.sid, NoneVal))
        oneof_varoffset == "0x" \o m.off
        oneof_size == hex(m.bits \div 8)
    IN  [st EXCEPT !.child_match = NoneVal,
                   !.oneof_name = oneof_name,
                   !.oneof_varstore = oneof_varstore,
                   !.oneof_varoffset = oneof_varoffset,
                   !.settings_dict =
                       DictSet(@, oneof_varstore, oneof_varoffset,
                               OneOfDict(oneof_name, oneof_size)),
                   !.last_match = "oneof"]

\* elif oneofoption_match and last_match == "oneof"
dict_oneofoption(st, m) ==
    LET oneofoption_name == m.name
        oneofoption_value == HexUpper(m.val)
        oneofoption_default == m.flag
        present == DictHas(st.settings_dict, st.oneof_varstore, st.oneof_varoffset)
        old == DictGet(st.settings_dict, st.oneof_varstore, st.oneof_varoffset)
        marked == \/ /\ st.last_oneof_name = st.oneof_name
                     /\ st.default = DefaultStr(oneofoption_value)
                  \/ Truthy(oneofoption_default)
        e1 == IF marked /\ ~old.hasDefault
              THEN [old EXCEPT !.hasDefault = TRUE, !.default = oneofoption_name]
              ELSE old
        e2 == [e1 EXCEPT !.hasOptions = TRUE,
                         !.options = MapSet(@, oneofoption_name, oneofoption_value)]
    IN  [st EXCEPT !.settings_dict =
                       IF present
                       THEN DictSet(@, st.oneof_varstore, st.oneof_varoffset, e2)
                       ELSE @,
                   !.child_match = "oneof_option"]

\* mutant of dict_numeric: Min and Max are stored the other way round
dict_numeric_swapped(st, m) ==
    LET numeric_varstore == Str(MapGet(st.varstores, m.sid, NoneVal))
        numeric_varoffset == "0x" \o m.off
    IN  [st EXCEPT !.numeric_name = m.name,
                   !.numeric_varstore = numeric_varstore,
                   !.numeric_varoffset = numeric_varoffset,
                   !.settings_dict =
                       DictSet(@, numeric_varstore, numeric_varoffset,
                               NumericDict(m.name, hex(m.bits \div 8), m.max, m.min)),
                   !.last_match = "numeric"]

\* elif numeric_match
dict_numeric(st, m) ==
    LET numeric_name == m.name
        numeric_varstore == Str(MapGet(st.varstores, m.sid, NoneVal))
        numeric_varoffset == "0x" \o m.off
        numeric_size == hex(m.bits \div 8)
    IN  [st EXCEPT !.numeric_name = numeric_name,
                   !.numeric_varstore = numeric_varstore,
                   !.numeric_varoffset = numeric_varoffset,
                   !.settings_dict =
                       DictSet(@, numeric_varstore, numeric_varoffset,
                               NumericDict(numeric_name, numeric_size, m.min, m.max)),
                   !.last_match = "numeric"]

\* mutant of dict_checkbox: the store id is not looked up
dict_checkbox_placeholder(st, m) ==
    LET checkbox_varoffset == "0x" \o m.off
    IN  [st EXCEPT !.settings_dict =
                       DictSet(@, "None", checkbox_varoffset,
                               CheckBoxDict(m.name, m.flag)),
                   !.last_match = "checkbox"]

\* elif checkbox_match
dict_checkbox(st, m) ==
    LET checkbox_varstore == Str(MapGet(st.varstores, m.sid, NoneVal))
        checkbox_varoffset == "0x" \o m.off
    IN  [st EXCEPT !.settings_dict =
                       DictSet(@, checkbox_varstore, checkbox_varoffset,
                               CheckBoxDict(m.name, m.flag)),
                   !.last_match = "checkbox"]

\* for option, value in oneof_dict["options"].items(): first value == default
FirstOptionWithValue(opts, value) ==
    IF \E i \in 1..Len(opts) : opts[i].v = value
    THEN CHOOSE i \in 1..Len(opts) :
             /\ opts[i].v = value
             /\ \A j \in 1..(i - 1) : opts[j].v # value
    ELSE 0

\* mutant of dict_default: a default value no collected option has clears the
\* default of the open one-of entry
dict_default_clears(st, m) ==
    IF st.last_match = "oneof" THEN
        IF Truthy(st.child_match) THEN
            LET default == HexUpper(m.val)
                present == DictHas(st.settings_dict, st.oneof_varstore,
                                   st.oneof_varoffset)
                old == DictGet(st.settings_dict, st.oneof_varstore,
                               st.oneof_varoffset)
                i == FirstOptionWithValue(old.options, default)
            IN  [st EXCEPT !.default = DefaultStr(default),
                           !.settings_dict =
                               IF present
                               THEN DictSet(@, st.oneof_varstore, st.oneof_varoffset,
                                            IF i # 0
                                            THEN [old EXCEPT !.hasDefault = TRUE,
                                                             !.default = old.options[i].k]
                                            ELSE [old EXCEPT !.hasDefault = FALSE,
                                                             !.default = ""])
                               ELSE @]
        ELSE [st EXCEPT !.default = DefaultStr(HexUpper(m.val)),
                        !.last_oneof_name = st.oneof_name]
    ELSE IF st.last_match = "numeric" THEN
        LET present == DictHas(st.settings_dict, st.numeric_varstore,
                               st.numeric_varoffset)
            old == DictGet(st.settings_dict, st.numeric_varstore,
                           st.numeric_varoffset)
        IN  [st EXCEPT !.default = DefaultInt(m.val),
                       !.settings_dict =
                           IF present
                           THEN DictSet(@, st.numeric_varstore, st.numeric_varoffset,
                                        [old EXCEPT !.hasDefault = TRUE,
                                                    !.ndefault = m.val])
                           ELSE @]
    ELSE st

\* mutant of dict_default: the scan of the options does not stop at the first
\* option that has the default value, the last one wins
dict_default_last_option(st, m) ==
    IF st.last_match = "oneof" THEN
        IF Truthy(st.child_match) THEN
            LET default == HexUpper(m.val)
                present == DictHas(st.settings_dict, st.oneof_varstore,
                                   st.oneof_varoffset)
                old == DictGet(st.settings_dict, st.oneof_varstore,
                               st.oneof_varoffset)
                hits == {i \in 1..Len(old.options) : old.options[i].v = default}
                i == IF hits = {} THEN 0
                     ELSE CHOOSE i \in hits : \A j \in hits : j <= i
            IN  [st EXCEPT !.default = DefaultStr(default),
                           !.settings_dict =
                               IF present /\ i # 0
                               THEN DictSet(@, st.oneof_varstore, st.oneof_varoffset,
                                            [old EXCEPT !.hasDefault = TRUE,
                                                        !.default = old.options[i].k])
                               ELSE @]
        ELSE [st EXCEPT !.default = DefaultStr(HexUpper(m.val)),
                        !.last_oneof_name = st.oneof_name]
    ELSE IF st.last_match = "numeric" THEN
        LET present == DictHas(st.settings_dict, st.numeric_varstore,
                               st.numeric_varoffset)
            old == DictGet(st.settings_dict, st.numeric_varstore,
                           st.numeric_varoffset)
        IN  [st EXCEPT !.default = DefaultInt(m.val),
                       !.settings_dict =
                           IF present
                           THEN DictSet(@, st.numeric_varstore, st.numeric_varoffset,
                                        [old EXCEPT !.hasDefault = TRUE,
                                                    !.ndefault = m.val])
                           ELSE @]
    ELSE st

\* mutant of dict_default: a numeric default is brought into [min, max]
dict_default_clamped(st, m) ==
    IF st.last_match = "oneof" THEN
        IF Truthy(st.child_match) THEN
            LET default == HexUpper(m.val)
                present == DictHas(st.settings_dict, st.oneof_varstore,
                                   st.oneof_varoffset)
                old == DictGet(st.settings_dict, st.oneof_varstore,
                               st.oneof_varoffset)
                i == FirstOptionWithValue(old.options, default)
            IN  [st EXCEPT !.default = DefaultStr(default),
                           !.settings_dict =
                               IF present /\ i # 0
                               THEN DictSet(@, st.oneof_varstore, st.oneof_varoffset,
                                            [old EXCEPT !.hasDefault = TRUE,
                                                        !.default = old.options[i].k])
                               ELSE @]
        ELSE [st EXCEPT !.default = DefaultStr(HexUpper(m.val)),
                        !.last_oneof_name = st.oneof_name]
    ELSE IF st.last_match = "numeric" THEN
        LET present == DictHas(st.settings_dict, st.numeric_varstore,
                               st.numeric_varoffset)
            old == DictGet(st.settings_dict, st.numeric_varstore,
                           st.numeric_varoffset)
            v == IF m.val > old.max THEN old.max
                 ELSE IF m.val < old.min THEN old.min ELSE m.val
        IN  [st EXCEPT !.default = DefaultInt(m.val),
                       !.settings_dict =
                           IF present
                           THEN DictSet(@, st.numeric_varstore, st.numeric_varoffset,
                                        [old EXCEPT !.hasDefault = TRUE,
                                                    !.ndefault = v])
                           ELSE @]
    ELSE st

\* elif default_match
dict_default(st, m) ==
    IF st.last_match = "oneof" THEN
        IF Truthy(st.child_match) THEN
            LET default == HexUpper(m.val)
                present == DictHas(st.settings_dict, st.oneof_varstore,
                                   st.oneof_varoffset)
                old == DictGet(st.settings_dict, st.oneof_varstore,
                               st.oneof_varoffset)
                i == FirstOptionWithValue(old.options, default)
            IN  [st EXCEPT !.default = DefaultStr(default),
                           !.settings_dict =
                               IF present /\ i # 0
                               THEN DictSet(@, st.oneof_varstore, st.oneof_varoffset,
                                            [old EXCEPT !.hasDefault = TRUE,
                                                        !.default = old.options[i].k])
                               ELSE @]
        ELSE [st EXCEPT !.default = DefaultStr(HexUpper(m.val)),
                        !.last_oneof_name = st.oneof_name]
    ELSE IF st.last_match = "numeric" THEN
        LET present == DictHas(st.settings_dict, st.numeric_varstore,
                               st.numeric_varoffset)
            old == DictGet(st.settings_dict, st.numeric_varstore,
                           st.numeric_varoffset)
        IN  [st EXCEPT !.default = DefaultInt(m.val),
                       !.settings_dict =
                           IF present
                           THEN DictSet(@, st.numeric_varstore, st.numeric_varoffset,
                                        [old EXCEPT !.hasDefault = TRUE,
                                                    !.ndefault = m.val])
                           ELSE @]
    ELSE st

\* one iteration of "for match in parsed_file": the if/elif chain
dict_step(st, match) ==
    IF varstore_match(match)
    THEN [st EXCEPT !.varstores = MapSet(@, match[1].sid, match[1].name)]
    ELSE IF oneof_match(match) THEN dict_oneof(st, match[1])
    ELSE IF oneofoption_match(match) /\ st.last_match = "oneof"
         THEN dict_oneofoption(st, match[1])
    ELSE IF numeric_match(match) THEN dict_numeric(st, match[1])
    ELSE IF checkbox_match(match) THEN dict_checkbox(st, match[1])
    ELSE IF default_match(match) THEN dict_default(st, match[1])
    ELSE st

RECURSIVE dict_loop(_, _)
dict_loop(st, parsed_file) ==
    IF parsed_file = <<>> THEN st
    ELSE dict_loop(dict_step(st, Head(parsed_file)), Tail(parsed_file))

\* dict_population(parsed_file): the settings_dict it returns
dict_population(parsed_file) == dict_loop(DictInit, parsed_file).settings_dict

-----------------------------------------------------------------------------
(* gui.py: the table and its index widgets *)

INT_MIN == -2147483647 - 1
INT_MAX == 2147483647

\* no index widget set on the row
NoWidget ==
    [cls |-> "", items |-> <<>>, text |-> "", min |-> 0, max |-> 0,
     value |-> 0, checked |-> FALSE]

\* QComboBox(): no items, no current text
NewComboBox == [NoWidget EXCEPT !.cls = "QComboBox"]

\* QComboBox.addItem: the first item added becomes the current one
addItem(combo, text) ==
    [combo EXCEPT !.items = Append(@, text),
                  !.text = IF combo.items = <<>> THEN text ELSE @]

\* QComboBox.setCurrentText on a combo that is not editable: selects the item
\* with that text, and changes nothing when there is none
setCurrentText(combo, text) ==
    IF \E i \in 1..Len(combo.items) : combo.items[i] = text
    THEN [combo EXCEPT !.text = text]
    ELSE combo

\* QSpinBox(): range 0..99, value 0
NewSpinBox == [NoWidget EXCEPT !.cls = "QSpinBox", !.max = 99]

Clamp(v, lo, hi) == IF v < lo THEN lo ELSE IF v > hi THEN hi ELSE v

\* QSpinBox.setMinimum / setMaximum / setValue: the range stays ordered and the
\* value stays in the range
setMinimum(spin, m) ==
    LET hi == IF spin.max < m THEN m ELSE spin.max
    IN  [spin EXCEPT !.min = m, !.max = hi, !.value = Clamp(@, m, hi)]

setMaximum(spin, m) ==
    LET lo == IF spin.min > m THEN m ELSE spin.min
    IN  [spin EXCEPT !.min = lo, !.max = m, !.value = Clamp(@, lo, m)]

setValue(spin, v) == [spin EXCEPT !.value = Clamp(v, spin.min, spin.max)]

\* an int argument that does not fit a C int raises OverflowError
FitsInt(x) == INT_MIN <= x /\ x <= INT_MAX

NewCheckBox == [NoWidget EXCEPT !.cls = "QCheckBox"]

\* the window's table: rows, option texts, index widgets; ok = no exception so far
Table(rows, opts, wids, ok) ==
    [table_data |-> rows, options |-> opts, widgets |-> wids, ok |-> ok]

\* self.table_data.append([name, varstore, varoffset])
AppendRow(w, name, varstore, varoffset) ==
    [w EXCEPT !.table_data =
                  Append(@, [name |-> name, varstore |-> varstore,
                             varoffset |-> varoffset]),
              !.options = Append(@, ""),
              !.widgets = Append(@, NoWidget)]

add_oneof(w, name, varstore, varoffset) == AppendRow(w, name, varstore, varoffset)

\* oneofoption_default is a string or NoneVal
add_oneof_option(w, oneofoption_name, oneofoption_default) ==
    LET row_position == Len(w.table_data)
        first == w.options[row_position] = ""     \* not current_item.data()
        combo == IF first THEN NewComboBox ELSE w.widgets[row_position]
    IN  IF Truthy(oneofoption_default)
        THEN [w EXCEPT !.options[row_position] =
                           IF first THEN oneofoption_name ELSE @,
                       !.widgets[row_position] =
                           setCurrentText(addItem(combo, oneofoption_name),
                                          oneofoption_default)]
        ELSE w

RECURSIVE add_oneof_options(_, _, _)
add_oneof_options(w, keys, default) ==
    IF keys = <<>> THEN w
    ELSE add_oneof_options(add_oneof_option(w, Head(keys), default),
                           Tail(keys), default)

\* hasDefault = FALSE stands for default = None
add_numeric(w, name, varstore, varoffset, min, max, hasDefault, default) ==
    LET w1 == AppendRow(w, name, varstore, varoffset)
        row_position == Len(w1.table_data)
        shown == hasDefault /\ INT_MIN < default /\ default < INT_MAX
                            /\ default >= min
        spinbox ==
            IF FitsInt(min) /\ FitsInt(max)
            THEN setValue(setMaximum(setMinimum(NewSpinBox, min), max), default)
            ELSE \* except OverflowError
                 setValue([NewSpinBox EXCEPT !.min = INT_MIN, !.max = INT_MAX],
                          default)
    IN  IF shown THEN [w1 EXCEPT !.widgets[row_position] = spinbox] ELSE w1

add_checkbox(w, name, varstore, varoffset, default) ==
    LET w1 == AppendRow(w, name, varstore, varoffset)
        row_position == Len(w1.table_data)
    IN  [w1 EXCEPT !.widgets[row_position] =
                       [NewCheckBox EXCEPT !.checked = (default = "Enabled")]]

-----------------------------------------------------------------------------
(* main.py: table_population *)

\* the body of the inner loop for one (varstore, varoffset, data_2)
table_entry(w, it) ==
    LET e == it.e IN
    IF e.type = "oneof" THEN
        LET w1 == add_oneof(w, e.name, it.varstore, it.varoffset) IN
        IF ~e.hasOptions
        THEN [w1 EXCEPT !.ok = FALSE]      \* data_2["options"]: KeyError
        ELSE add_oneof_options(w1, MapKeys(e.options),
                               IF e.hasDefault THEN e.default ELSE NoneVal)
    ELSE IF e.type = "numeric" THEN
        add_numeric(w, e.name, it.varstore, it.varoffset, e.min, e.max,
                    e.hasDefault, e.ndefault)
    ELSE IF e.type = "checkbox" THEN
        add_checkbox(w, e.name, it.varstore, it.varoffset,
                     IF e.hasDefault THEN e.default ELSE NoneVal)
    ELSE w

RECURSIVE table_loop(_, _)
table_loop(w, items) ==
    IF items = <<>> \/ ~w.ok THEN w
    ELSE table_loop(table_entry(w, Head(items)), Tail(items))

\* mutant of table_population: the entries are taken last first
table_population_reversed(w, d) ==
    table_loop(w, [i \in 1..Len(DictItems(d)) |->
                      DictItems(d)[Len(DictItems(d)) + 1 - i]])

table_population(w, d) == table_loop(w, DictItems(d))

-----------------------------------------------------------------------------
(* gui.py: write_script and the export_* methods.  A directive is one item  *)
(* of self.export: the attribution comment, a write command with its        *)
(* comment line, or the read-and-reboot command.                             *)

Directive(kind, name, label, number, varoffset, value, size, varstore) ==
    [kind |-> kind, name |-> name, label |-> label, number |-> number,
     varoffset |-> varoffset, value |-> value, size |-> size,
     varstore |-> varstore]

Attribution == Directive("attribution", "", "", 0, "", "", "", "")

\* what an export_* method did: the items it appended, or an exception
Exported(out) == [out |-> out, err |-> FALSE]
KeyError == [out |-> <<>>, err |-> TRUE]

\* mutant of export_oneof: the command carries the option's label
export_oneof_label(none, d, name, varstore, varoffset, widget) ==
    LET oneofoption_name == widget.text IN
    IF none THEN Exported(<<>>)
    ELSE IF ~DictHas(d, varstore, varoffset) THEN Exported(<<>>)
    ELSE LET oneof_dict == DictGet(d, varstore, varoffset) IN
         IF ~oneof_dict.hasDefault THEN KeyError
         ELSE IF oneofoption_name # oneof_dict.default
         THEN Exported(<<Directive("write", name, oneofoption_name, 0, varoffset,
                           oneofoption_name, oneof_dict.size, varstore)>>)
         ELSE Exported(<<>>)

\* f"# {name}: {oneofoption_name}\nsetup_var.efi {varoffset} {option} -s {size} -n {varstore}\n\n"
export_oneof(none, d, name, varstore, varoffset, widget) ==
    LET oneofoption_name == widget.text IN
    IF none THEN Exported(<<>>)
    ELSE IF ~DictHas(d, varstore, varoffset) THEN Exported(<<>>)
    ELSE LET oneof_dict == DictGet(d, varstore, varoffset) IN
         IF ~oneof_dict.hasDefault THEN KeyError
         ELSE IF oneofoption_name # oneof_dict.default
         THEN IF ~oneof_dict.hasOptions \/ ~oneof_dict.hasSize THEN KeyError
              ELSE Exported(<<Directive("write", name, oneofoption_name, 0,
                                varoffset,
                                Str(MapGet(oneof_dict.options, oneofoption_name,
                                           NoneVal)),
                                oneof_dict.size, varstore)>>)
         ELSE Exported(<<>>)

\* mutant of export_numeric: the value is compared with min, not with the default
export_numeric_vs_min(none, d, name, varstore, varoffset, widget) ==
    LET value == widget.value IN
    IF none THEN Exported(<<>>)
    ELSE IF ~DictHas(d, varstore, varoffset) THEN KeyError
    ELSE LET numeric_dict == DictGet(d, varstore, varoffset) IN
         IF value # numeric_dict.min
         THEN Exported(<<Directive("write", name, "", value, varoffset,
                           HexUpper(value), numeric_dict.size, varstore)>>)
         ELSE Exported(<<>>)

\* f"# {name}: {value}\nsetup_var.efi {varoffset} 0x{hex(value)[2:].upper()} -s {size} -n {varstore}\n\n"
export_numeric(none, d, name, varstore, varoffset, widget) ==
    LET value == widget.value IN
    IF none THEN Exported(<<>>)
    ELSE IF ~DictHas(d, varstore, varoffset) THEN KeyError
    ELSE LET numeric_dict == DictGet(d, varstore, varoffset) IN
         IF ~numeric_dict.hasDefault THEN KeyError
         ELSE IF numeric_dict.type # "numeric" \/ value # numeric_dict.ndefault
         THEN IF ~numeric_dict.hasSize THEN KeyError
              ELSE Exported(<<Directive("write", name, "", value, varoffset,
                                HexUpper(value), numeric_dict.size, varstore)>>)
         ELSE Exported(<<>>)

\* f"# {name}: Enabled\nsetup_var.efi {varoffset} 0x1 -s 0x1 -n {varstore}\n\n"
\* f"# {name}: Disabled\nsetup_var.efi {varoffset} 0x0 -s 0x1 -n {varstore}\n\n"
export_checkbox(none, d, name, varstore, varoffset, widget) ==
    IF none THEN Exported(<<>>)
    ELSE IF ~DictHas(d, varstore, varoffset) THEN Exported(<<>>)
    ELSE LET checkbox_dict == DictGet(d, varstore, varoffset) IN
         IF ~checkbox_dict.hasDefault THEN KeyError
         ELSE LET default_value == checkbox_dict.default IN
              IF widget.checked
              THEN IF default_value = "Disabled"
                   THEN Exported(<<Directive("write", name, "Enabled", 0,
                                     varoffset, "0x1", "0x1", varstore)>>)
                   ELSE Exported(<<>>)
              ELSE IF default_value = "Enabled"
                   THEN Exported(<<Directive("write", name, "Disabled", 0,
                                     varoffset, "0x0", "0x1", varstore)>>)
                   ELSE Exported(<<>>)

\* the body of write_script's loop for one row
export_row(none, d, row, widget) ==
    IF widget.cls = "QComboBox"
    THEN export_oneof(none, d, row.name, row.varstore, row.varoffset, widget)
    ELSE IF widget.cls = "QSpinBox"
    THEN export_numeric(none, d, row.name, row.varstore, row.varoffset, widget)
    ELSE IF widget.cls = "QCheckBox"
    THEN export_checkbox(none, d, row.name, row.varstore, row.varoffset, widget)
    ELSE Exported(<<>>)

\* for row in range(len(self.table_data)), from row i on
RECURSIVE export_rows(_, _, _, _, _)
export_rows(none, d, rows, wids, i) ==
    IF i > Len(rows) THEN Exported(<<>>)
    ELSE LET one == export_row(none, d, rows[i], wids[i]) IN
         IF one.err THEN KeyError
         ELSE LET rest == export_rows(none, d, rows, wids, i + 1) IN
              IF rest.err THEN KeyError ELSE Exported(one.out \o rest.out)

\* the read-and-reboot command of export_script; table_model.data of a row the
\* table does not have is None
\* f"# read {name} and reboot\nsetup_var.efi {varoffset} -n {varstore} -r"
ReadAndReboot(rows) ==
    IF rows = <<>>
    THEN Directive("read", "None", "", 0, "None", "", "", "None")
    ELSE Directive("read", rows[1].name, "", 0, rows[1].varoffset, "", "",
                   rows[1].varstore)

\* the file export_script writes: nothing at all when the dialog was cancelled
NoScript == [written |-> FALSE, lines |-> <<>>]

export_script(file_path, export, rows) ==
    IF file_path # ""
    THEN [written |-> TRUE, lines |-> Append(export, ReadAndReboot(rows))]
    ELSE NoScript

-----------------------------------------------------------------------------
(* The program *)

Init ==
    /\ pc = "idle"
    /\ in_file = <<>>
    /\ pf = ParseInit
    /\ nlines = 0
    /\ consumed = <<>>
    /\ dp = DictInit
    /\ nrecords = 0
    /\ settings_none = TRUE
    /\ settings_dict = <<>>
    /\ table_data = <<>>
    /\ options = <<>>
    /\ widgets = <<>>
    /\ message = ""
    /\ script = NoScript

\* mutant of clear_data: settings_dict is not cleared
clear_data_keeps_dict(w, d) ==
    [table |-> Table(<<>>, <<>>, <<>>, TRUE), settings_dict |-> d]

\* mutant of clear_data: the rows and their widgets are not removed
clear_data_keeps_rows(w, d) == [table |-> w, settings_dict |-> <<>>]

\* MainWindow.clear_data: what it leaves of the table w and of the model d
\* (a settings_dict that is None or empty is left alone, and has no entries)
clear_data(w, d) ==
    [table |-> Table(<<>>, <<>>, <<>>, TRUE), settings_dict |-> <<>>]

\* handle_file_selected, up to the first line of the file:
\* clear_data, then parse_input_file reads and validates the first line
OpenFile(first_line) ==
    /\ pc = "idle"
    /\ LET cleared == clear_data(Table(table_data, options, widgets, TRUE),
                              settings_dict)
       IN  /\ table_data' = cleared.table.table_data
           /\ options' = cleared.table.options
           /\ widgets' = cleared.table.widgets
           /\ settings_dict' = cleared.settings_dict
    /\ nlines' = 0
    /\ in_file' = <<>>
    /\ script' = NoScript
    /\ IF ~extraction_mode_in(first_line)
       THEN /\ message' = InvalidFileMessage
            /\ pf' = ParseInit
            /\ pc' = "idle"
       ELSE /\ message' = ""
            /\ pf' = [ParseInit EXCEPT !.first_line = first_line]
            /\ pc' = "reading"
    /\ UNCHANGED <<consumed, dp, nrecords, settings_none>>

\* parse_input_file: one more line of the file
ReadLine(line) ==
    /\ pc = "reading"
    /\ nlines < MaxLines
    /\ in_file' = Append(in_file, line)
    /\ pf' = parse_line(pf, line)
    /\ nlines' = nlines + 1
    /\ UNCHANGED <<pc, consumed, dp, nrecords, settings_none, settings_dict, table_data,
                   options, widgets, message, script>>

\* the end of the file: parse_input_file returns, and handle_file_selected
\* runs dict_population, table_population and get_dict on a non-empty result
EndOfFile ==
    /\ pc = "reading"
    /\ LET parsed_input_file == parse_return(pf)
           new_dict == dict_population(parsed_input_file)
           w == table_population(Table(table_data, options, widgets, TRUE),
                                 new_dict)
       IN  /\ message' = parse_message(pf)
           /\ IF parsed_input_file # <<>>
              THEN /\ table_data' = w.table_data
                   /\ options' = w.options
                   /\ widgets' = w.widgets
                   /\ IF w.ok
                      THEN /\ settings_dict' = new_dict     \* get_dict
                           /\ settings_none' = FALSE
                           /\ pc' = "idle"
                      ELSE \* the exception leaves the slot: the process ends
                           /\ pc' = "aborted"
                           /\ UNCHANGED <<settings_dict, settings_none>>
              ELSE /\ pc' = "idle"
                   /\ UNCHANGED <<settings_dict, settings_none, table_data,
                                  options, widgets>>
    /\ in_file' = <<>>
    /\ pf' = ParseInit
    /\ nlines' = 0
    /\ UNCHANGED <<consumed, dp, nrecords, script>>

\* the user picks another item of a row's combo box
SelectOption(row) ==
    /\ pc = "idle"
    /\ row \in 1..Len(widgets)
    /\ widgets[row].cls = "QComboBox"
    /\ \E i \in 1..Len(widgets[row].items) :
           /\ widgets[row].items[i] # widgets[row].text
           /\ widgets' = [widgets EXCEPT ![row] =
                              setCurrentText(@, widgets[row].items[i])]
    /\ script' = NoScript
    /\ UNCHANGED <<pc, in_file, pf, nlines, consumed, dp, nrecords,
                   settings_none, settings_dict,
                   table_data, options, message>>

\* the user sets another value in a row's spin box
SetSpinValue(row) ==
    /\ pc = "idle"
    /\ row \in 1..Len(widgets)
    /\ widgets[row].cls = "QSpinBox"
    /\ \E v \in widgets[row].min..widgets[row].max :
           /\ v # widgets[row].value
           /\ widgets' = [widgets EXCEPT ![row] = setValue(@, v)]
    /\ script' = NoScript
    /\ UNCHANGED <<pc, in_file, pf, nlines, consumed, dp, nrecords,
                   settings_none, settings_dict,
                   table_data, options, message>>

\* the user toggles a row's check box
ToggleCheckBox(row) ==
    /\ pc = "idle"
    /\ row \in 1..Len(widgets)
    /\ widgets[row].cls = "QCheckBox"
    /\ widgets' = [widgets EXCEPT ![row].checked = ~@]
    /\ script' = NoScript
    /\ UNCHANGED <<pc, in_file, pf, nlines, consumed, dp, nrecords,
                   settings_none, settings_dict,
                   table_data, options, message>>

\* MainWindow.write_script, with the path the save dialog returns ("" = cancelled)
write_script(file_path) ==
    /\ pc = "idle"
    /\ LET body == export_rows(settings_none, settings_dict, table_data, widgets, 1)
       IN  IF body.err
           THEN /\ pc' = "aborted"
                /\ script' = NoScript
           ELSE /\ pc' = "idle"
                /\ script' = export_script(file_path, <<Attribution>> \o body.out,
                                           table_data)
    /\ UNCHANGED <<in_file, pf, nlines, consumed, dp, nrecords,
                   settings_none, settings_dict,
                   table_data, options, widgets, message>>

-----------------------------------------------------------------------------
(* Inputs: the lines a file may hold *)

\* first lines: with or without the marker, with or without a brace token
FirstLines == {Line(m, b, FALSE, Blank) : m \in BOOLEAN, b \in BOOLEAN}

\* lines that match no pattern: a start line without a brace token, and
\* continuation lines with and without one
PlainLines ==
    {Line(FALSE, FALSE, TRUE, Blank)}
        \cup {Line(FALSE, b, FALSE, Blank) : b \in BOOLEAN}

\* a verbose dump's record lines: 0x<hex>: <fields> {<bytes>}
RecordLines(texts) == {Line(FALSE, TRUE, TRUE, t) : t \in texts}

\* one store, one question of each kind, two options, two default values
Texts ==
    {VarStoreText("1", "Setup"),
     OneOfText("Fan Mode", "1", "10", 8),
     OneOfOptionText("Auto", 0, ""),
     OneOfOptionText("Manual", 1, ", Default"),
     NumericText("Limit", "1", "20", 8, 0, 2),
     DefaultText(1),
     DefaultText(3),
     CheckBoxText("Boot", "1", "30", "Disabled")}

BodyLines == RecordLines(Texts) \cup PlainLines

\* check boxes of two store ids at two offsets, and the declaration of store 1
OrderTexts ==
    {VarStoreText("1", "Setup")}
        \cup {CheckBoxText("Boot", id, off, flag) :
                 id \in {"1", "2"}, off \in {"10", "20"},
                 flag \in {"Enabled", "Disabled"}}

OrderLines == RecordLines(OrderTexts)

\* records fed to dict_population directly: questions of the three kinds on one
\* key, a second one-of question of the same name and a numeric question with
\* Min > Max on another key, and two options of the same value
ReduceTexts ==
    {VarStoreText("1", "Setup"),
     OneOfText("Fan Mode", "1", "10", 8),
     OneOfText("Fan Mode", "1", "20", 8),
     OneOfOptionText("Auto", 0, ""),
     OneOfOptionText("Manual", 1, ""),
     OneOfOptionText("Manual", 1, ", Default"),
     OneOfOptionText("Silent", 1, ""),
     NumericText("Limit", "1", "10", 8, 0, 2),
     NumericText("Limit", "1", "20", 8, 2, 0),
     DefaultText(0),
     DefaultText(1),
     DefaultText(3),
     CheckBoxText("Boot", "1", "10", "Enabled")}

-----------------------------------------------------------------------------
(* Specifications *)

Rows == 1..MaxLines
Paths == {"", "setupvar-script.nsh"}

Edit ==
    \/ \E row \in Rows : SelectOption(row)
    \/ \E row \in Rows : SetSpinValue(row)
    \/ \E row \in Rows : ToggleCheckBox(row)

\* the whole program on dumps with one question of each kind
Next ==
    \/ \E first_line \in FirstLines : OpenFile(first_line)
    \/ \E line \in BodyLines : ReadLine(line)
    \/ EndOfFile
    \/ Edit
    \/ \E file_path \in Paths : write_script(file_path)

Spec == Init /\ [][Next]_vars

\* the whole program on verbose dumps of check boxes in two stores
NextOrder ==
    \/ \E first_line \in FirstLines : OpenFile(first_line)
    \/ \E line \in OrderLines : ReadLine(line)
    \/ EndOfFile
    \/ \E row \in Rows : ToggleCheckBox(row)
    \/ \E file_path \in Paths : write_script(file_path)

SpecOrder == Init /\ [][NextOrder]_vars

\* dict_population alone, one record of its loop at a time
InitReduce ==
    /\ pc = "reduce"
    /\ in_file = <<>>
    /\ pf = ParseInit
    /\ nlines = 0
    /\ consumed = <<>>
    /\ dp = DictInit
    /\ nrecords = 0
    /\ settings_none = TRUE
    /\ settings_dict = <<>>
    /\ table_data = <<>>
    /\ options = <<>>
    /\ widgets = <<>>
    /\ message = ""
    /\ script = NoScript

ProcessRecord(text) ==
    /\ pc = "reduce"
    /\ nrecords < MaxRecords
    /\ consumed' = Append(consumed, <<text>>)
    /\ dp' = dict_step(dp, <<text>>)
    /\ nrecords' = nrecords + 1
    /\ UNCHANGED <<pc, in_file, pf, nlines, settings_none, settings_dict, table_data,
                   options, widgets, message, script>>

NextReduce == \E text \in ReduceTexts : ProcessRecord(text)

SpecReduce == InitReduce /\ [][NextReduce]_vars

-----------------------------------------------------------------------------
(* Vocabulary of the claims *)

\* the entry of the model a table row stands for
RowEntry(i) ==
    IF DictHas(settings_dict, table_data[i].varstore, table_data[i].varoffset)
    THEN DictGet(settings_dict, table_data[i].varstore, table_data[i].varoffset)
    ELSE Entry("", "")

\* the positions of the write directives of the script for one setting
WritesFor(varstore, varoffset) ==
    {j \in 1..Len(script.lines) :
        /\ script.lines[j].kind = "write"
        /\ script.lines[j].varstore = varstore
        /\ script.lines[j].varoffset = varoffset}

WritePositions == {j \in 1..Len(script.lines) : script.lines[j].kind = "write"}

\* every setting of the model has a default
AllHaveDefault ==
    \A i \in 1..Len(DictItems(settings_dict)) :
        DictItems(settings_dict)[i].e.hasDefault

\* the row's widget, if it has one, shows the default of the row's setting
SelectionIsDefault(i) ==
    LET w == widgets[i]
        e == RowEntry(i)
    IN  /\ w.cls = "QComboBox" => w.text = e.default
        /\ w.cls = "QSpinBox" => w.value = e.ndefault
        /\ w.cls = "QCheckBox" => (w.checked <=> e.default = "Enabled")

\* a (varstore, varoffset) has an entry with a default in the model d
HasDefaultAt(d, varstore, varoffset) ==
    DictHas(d, varstore, varoffset) /\ DictGet(d, varstore, varoffset).hasDefault

\* the place of a setting in the iteration order of the model, 0 if absent
ModelPosition(varstore, varoffset) ==
    LET items == DictItems(settings_dict)
        at == {i \in 1..Len(items) :
                  items[i].varstore = varstore /\ items[i].varoffset = varoffset}
    IN  IF at = {} THEN 0 ELSE CHOOSE i \in at : TRUE

\* this step is the end of handle_file_selected that began with an accepted
\* first line
FileRead == pc = "reading" /\ pc' # "reading"

-----------------------------------------------------------------------------
(* C1: when every setting of the model has a default and every widget shows *)
(* the default of its setting, the script written holds no write directive. *)
C1_DefaultSelectionWritesNothing ==
    (/\ script.written
     /\ AllHaveDefault
     /\ \A i \in 1..Len(table_data) : SelectionIsDefault(i))
        => WritePositions = {}

C1_Witness ==
    /\ script.written
    /\ AllHaveDefault
    /\ \A i \in 1..Len(table_data) : SelectionIsDefault(i)
    /\ \E i \in 1..Len(widgets) :
           widgets[i].cls = "QComboBox" /\ Len(widgets[i].items) >= 2
    /\ \E i \in 1..Len(widgets) : widgets[i].cls = "QCheckBox"

C3_OneOfWritesRawValue ==
    script.written =>
        \A i \in 1..Len(table_data) :
            LET e == RowEntry(i)
                w == widgets[i]
            IN  (w.cls = "QComboBox" /\ w.text # e.default) =>
                    /\ MapHas(e.options, w.text)
                    /\ \E j \in WritesFor(table_data[i].varstore,
                                          table_data[i].varoffset) :
                           /\ script.lines[j].label = w.text
                           /\ script.lines[j].value =
                                  MapGet(e.options, w.text, NoneVal)
                           /\ script.lines[j].value \notin {w.text, "None", NoneVal}
                    /\ Cardinality(WritesFor(table_data[i].varstore,
                                             table_data[i].varoffset)) = 1

C3_Witness ==
    /\ script.written
    /\ \E i \in 1..Len(table_data) :
           /\ widgets[i].cls = "QComboBox"
           /\ widgets[i].text # RowEntry(i).default
           /\ WritesFor(table_data[i].varstore, table_data[i].varoffset) # {}

(* C4: opening a file whose first line lacks the marker shows "Invalid      *)
(* file", reads no further line and produces no record, and leaves the      *)
(* window with an empty model and an empty table.                           *)
C4_NoMarkerIsInvalidFormat ==
    [][\A first_line \in FirstLines :
           (~first_line.marker /\ OpenFile(first_line)) =>
               /\ message' = InvalidFileMessage
               /\ pc' = "idle"
               /\ pf'.parsed_input_file = <<>>
               /\ pf'.accumulator = <<>>
               /\ settings_dict' = <<>>
               /\ table_data' = <<>>
               /\ widgets' = <<>>]_vars

C4_Witness ==
    /\ message = InvalidFileMessage
    /\ ~settings_none
    /\ settings_dict = <<>>
    /\ pc = "idle"

(* C5, as claimed: a file with the marker is rejected as not verbose if and *)
(* only if no line of the file, the first line included, holds a brace      *)
(* token.                                                                   *)
C5_RejectedIffNoBraceAnywhere ==
    [][FileRead =>
           (message' = VerboseMessage
                <=> (~pf.first_line.brace /\ ~pf.pattern_found))]_vars

(* C5, amended: a file with the marker is rejected as not verbose if and    *)
(* only if no line after the first holds a brace token (a start line or a   *)
(* continuation line, at any position); a rejected file loads nothing, an   *)
(* accepted one loads the model of all its reassembled records.             *)
C5_RejectedIffNoBraceAfterFirstLine ==
    [][/\ \A first_line \in FirstLines :
              (first_line.marker /\ OpenFile(first_line)) => ~pf'.pattern_found
       /\ \A line \in BodyLines :
              ReadLine(line) =>
                  (pf'.pattern_found <=> (pf.pattern_found \/ line.brace))
       /\ FileRead =>
              /\ message' = VerboseMessage <=> ~pf.pattern_found
              /\ message' = VerboseMessage =>
                     /\ pc' = "idle"
                     /\ table_data' = <<>>
                     /\ settings_dict' = <<>>
              /\ (message' # VerboseMessage /\ pc' = "idle") =>
                     settings_dict' = dict_population(parse_flush(pf))]_vars

C5_Witness ==
    /\ message = VerboseMessage
    /\ ~settings_none
    /\ table_data = <<>>
    /\ pc = "idle"

(* C6, as claimed: a script written while the model is empty holds no       *)
(* directive: no write command and no read-and-reboot command.              *)
C6_EmptyModelEmptyScript ==
    (script.written /\ settings_dict = <<>>) =>
        \A j \in 1..Len(script.lines) :
            script.lines[j].kind \notin {"write", "read"}

(* C7, as claimed: once the entry at a key has a default, the entry at that  *)
(* key has a default after every later record.                              *)
C7_DefaultNeverRemoved ==
    [][\A i \in 1..Len(DictItems(dp.settings_dict)) :
           LET it == DictItems(dp.settings_dict)[i] IN
           it.e.hasDefault =>
               HasDefaultAt(dp'.settings_dict, it.varstore, it.varoffset)]_vars

(* C7, amended: an entry is never removed, and once the entry at a key has  *)
(* a default it has one after every later record, except after a one-of or  *)
(* numeric question record for that same key, which replaces the entry by   *)
(* one without a default.                                                    *)
C7_DefaultRemovedOnlyByQuestion ==
    [][\A i \in 1..Len(DictItems(dp.settings_dict)) :
           LET it == DictItems(dp.settings_dict)[i] IN
           /\ DictHas(dp'.settings_dict, it.varstore, it.varoffset)
           /\ (/\ it.e.hasDefault
               /\ ~HasDefaultAt(dp'.settings_dict, it.varstore, it.varoffset))
                  => \E text \in ReduceTexts :
                         /\ text.kind \in {"oneof", "numeric"}
                         /\ dp' = dict_step(dp, <<text>>)
                         /\ "0x" \o text.off = it.varoffset
                         /\ Str(MapGet(dp.varstores, text.sid, NoneVal))
                                = it.varstore]_vars

C7_Witness ==
    /\ \E i \in 1..Len(DictItems(dp.settings_dict)) :
           /\ DictItems(dp.settings_dict)[i].e.type = "oneof"
           /\ DictItems(dp.settings_dict)[i].e.hasDefault
    /\ \E i \in 1..Len(DictItems(dp.settings_dict)) :
           /\ DictItems(dp.settings_dict)[i].e.type = "numeric"
           /\ DictItems(dp.settings_dict)[i].e.hasDefault

(* C8, as claimed: every Numeric entry of the model has min <= max.          *)
C8_MinLeMax ==
    \A i \in 1..Len(DictItems(dp.settings_dict)) :
        LET e == DictItems(dp.settings_dict)[i].e IN
        e.type = "numeric" => e.min <= e.max

(* C8, amended: every Numeric entry has the min and max of a numeric        *)
(* question record of the input at its offset, as given: min <= max holds   *)
(* exactly when that record has Min <= Max.                                  *)
C8_MinMaxAsGiven ==
    \A i \in 1..Len(DictItems(dp.settings_dict)) :
        LET it == DictItems(dp.settings_dict)[i] IN
        it.e.type = "numeric" =>
            \E text \in ReduceTexts :
                /\ text.kind = "numeric"
                /\ "0x" \o text.off = it.varoffset
                /\ it.e.min = text.min
                /\ it.e.max = text.max
                /\ it.e.min <= it.e.max <=> text.min <= text.max

C8_Witness ==
    \E i \in 1..Len(DictItems(dp.settings_dict)) :
        LET e == DictItems(dp.settings_dict)[i].e IN
        e.type = "numeric" /\ e.min > e.max

\* the rows table_population makes of a model: one per entry, in its order
RowsOf(d) ==
    [i \in 1..Len(DictItems(d)) |->
        [name |-> DictItems(d)[i].e.name,
         varstore |-> DictItems(d)[i].varstore,
         varoffset |-> DictItems(d)[i].varoffset]]

\* the widget of a row belongs to the kind of the row's setting
WidgetFits(i) ==
    /\ widgets[i].cls = "QComboBox" => RowEntry(i).type = "oneof"
    /\ widgets[i].cls = "QSpinBox" => RowEntry(i).type = "numeric"
    /\ widgets[i].cls = "QCheckBox" <=> RowEntry(i).type = "checkbox"

(* C9: whenever no file is being loaded, the rows of the table are exactly  *)
(* the entries of the model held by the window, each widget on its own      *)
(* setting; model and table are empty when the file opened last was         *)
(* rejected; every file-open starts from an empty table and model, and an   *)
(* accepted file leaves the model of its own records.                        *)
C9_OnlyTheLastFile ==
    /\ [](pc \in {"idle", "reading"} =>
             /\ table_data = RowsOf(settings_dict)
             /\ Len(widgets) = Len(table_data)
             /\ Len(options) = Len(table_data)
             /\ \A i \in 1..Len(table_data) : WidgetFits(i)
             /\ message # "" => (settings_dict = <<>> /\ table_data = <<>>))
    /\ [][/\ \A first_line \in FirstLines :
                 OpenFile(first_line) =>
                     /\ table_data' = <<>>
                     /\ widgets' = <<>>
                     /\ options' = <<>>
                     /\ settings_dict' = <<>>
          /\ (FileRead /\ pc' = "idle") =>
                 settings_dict' = dict_population(parse_return(pf))]_vars

C9_Witness ==
    /\ pc = "idle"
    /\ ~settings_none
    /\ message = ""
    /\ Len(table_data) >= 2
    /\ table_data = RowsOf(settings_dict)

(* C10: the write directives of the script written are in the iteration     *)
(* order of the model: of two write directives, the earlier one belongs to  *)
(* the setting that comes first in the model (store by store, offset by     *)
(* offset).                                                                  *)
C10_WritesInModelOrder ==
    script.written =>
        \A a \in WritePositions, b \in WritePositions :
            a < b =>
                /\ ModelPosition(script.lines[a].varstore,
                                 script.lines[a].varoffset) > 0
                /\ ModelPosition(script.lines[a].varstore,
                                 script.lines[a].varoffset)
                       < ModelPosition(script.lines[b].varstore,
                                       script.lines[b].varoffset)

C10_Witness ==
    /\ script.written
    /\ Cardinality(WritePositions) >= 3
    /\ Len(settings_dict) = 2
    /\ Len(settings_dict[1].v) = 2

-----------------------------------------------------------------------------
(* Vocabulary of the claims on the line reassembly *)

\* the places of the record-start lines among the body lines read so far
Starts == {i \in 1..Len(in_file) : in_file[i].hex}

\* the k-th record-start line
StartAt(k) ==
    CHOOSE i \in Starts : Cardinality({j \in Starts : j <= i}) = k

\* the last line of the record that starts at line i
RecordEnd(i) ==
    IF \E j \in Starts : j > i
    THEN (CHOOSE j \in Starts : j > i /\ \A h \in Starts : h > i => j <= h) - 1
    ELSE Len(in_file)

\* the record that starts at line i: its lines, in order, one after the other
RecordAt(i) == [j \in 1..(RecordEnd(i) - i + 1) |-> in_file[i + j - 1].text]

(* C11: for a file that is accepted, the records parse_input_file returns    *)
(* are as many as the start lines after the first line, in file order, each *)
(* the start line followed by its continuation lines up to the next start   *)
(* line; continuation lines before the first start line are in no record.   *)
C11_RecordsAreStartLinesWithContinuations ==
    (pc = "reading" /\ pf.pattern_found) =>
        LET records == parse_return(pf) IN
        /\ Len(records) = Cardinality(Starts)
        /\ \A k \in 1..Len(records) : records[k] = RecordAt(StartAt(k))

C11_Witness ==
    /\ pc = "reading"
    /\ pf.pattern_found
    /\ Len(in_file) = 4
    /\ ~in_file[1].hex /\ in_file[2].hex /\ ~in_file[3].hex /\ in_file[4].hex
    /\ Len(parse_return(pf)) = 2
    /\ Len(parse_return(pf)[1]) = 2

-----------------------------------------------------------------------------
(* Vocabulary of the claims on dict_population: the records consumed so far *)

\* the start line of the i-th record consumed
RecordText(i) == consumed[i][1]

QuestionKinds == {"oneof", "numeric", "checkbox"}

\* a store declaration for the id of the i-th record comes before it
DeclaredBefore(i) ==
    \E j \in 1..(i - 1) :
        RecordText(j).kind = "varstore" /\ RecordText(j).sid = RecordText(i).sid

\* this step consumes one more record: the last of consumed'
Consumes == Len(consumed') = Len(consumed) + 1

LastText == RecordText(Len(consumed))

(* C12: a question record whose store id has no declaration before it does  *)
(* not stop the parse: right after it the model has an entry of its kind    *)
(* and name at its offset under the placeholder store name "None", the      *)
(* placeholder keeps an entry at that offset, and later records are          *)
(* consumed.                                                                 *)
C12_UndeclaredStoreIsPlaceholder ==
    /\ [](\A i \in 1..Len(consumed) :
            (RecordText(i).kind \in QuestionKinds /\ ~DeclaredBefore(i))
                => DictHas(dp.settings_dict, "None", "0x" \o RecordText(i).off))
    /\ [][Consumes =>
            LET i == Len(consumed')
                text == consumed'[i][1]
            IN  (/\ text.kind \in QuestionKinds
                 /\ ~\E j \in 1..(i - 1) :
                        /\ consumed'[j][1].kind = "varstore"
                        /\ consumed'[j][1].sid = text.sid)
                    => /\ DictHas(dp'.settings_dict, "None", "0x" \o text.off)
                       /\ DictGet(dp'.settings_dict, "None",
                                  "0x" \o text.off).type = text.kind
                       /\ DictGet(dp'.settings_dict, "None",
                                  "0x" \o text.off).name = text.name]_vars

C12_Witness ==
    /\ Len(consumed) = 3
    /\ RecordText(1).kind = "oneof"
    /\ RecordText(2).kind = "varstore"
    /\ RecordText(3).kind = "numeric"
    /\ DictHas(dp.settings_dict, "None", "0x" \o RecordText(1).off)
    /\ DictHas(dp.settings_dict, "Setup", "0x" \o RecordText(3).off)

\* the place in the record sequence cs of the last question record before
\* the i-th record, 0 if there is none
LastQuestionBefore(cs, i) ==
    LET qs == {j \in 1..(i - 1) : cs[j][1].kind \in QuestionKinds}
    IN  IF qs = {} THEN 0 ELSE CHOOSE j \in qs : \A h \in qs : h <= j

\* the i-th record of cs is an option record under an open one-of question
Honored(cs, i) ==
    /\ cs[i][1].kind = "oneofoption"
    /\ LastQuestionBefore(cs, i) # 0
    /\ cs[LastQuestionBefore(cs, i)][1].kind = "oneof"

\* the bare default-value records that are pending at the i-th record of cs:
\* those after the open question and before its first option
PendingDefaults(cs, i) ==
    LET q == LastQuestionBefore(cs, i)
    IN  {j \in (q + 1)..(i - 1) :
            /\ cs[j][1].kind = "default"
            /\ \A h \in (q + 1)..(j - 1) : cs[h][1].kind # "oneofoption"}

\* the i-th record of cs is an option whose raw value is the pending bare
\* default of the open question (the last one stashed)
MatchesPending(cs, i) ==
    /\ PendingDefaults(cs, i) # {}
    /\ LET j == CHOOSE j \in PendingDefaults(cs, i) :
                    \A h \in PendingDefaults(cs, i) : h <= j
       IN  HexUpper(cs[j][1].val) = HexUpper(cs[i][1].val)

\* the entry of the open one-of question before and after this step
OpenBefore == DictGet(dp.settings_dict, dp.oneof_varstore, dp.oneof_varoffset)
OpenAfter == DictGet(dp'.settings_dict, dp.oneof_varstore, dp.oneof_varoffset)

(* C13, as claimed: an honored option record becomes the default of the     *)
(* open entry only if it has the default marker or its raw value equals the *)
(* pending bare default of the open question, and only if the entry has no  *)
(* default yet; it never changes a default the entry has; its label and raw *)
(* value are in the entry's options afterwards.                              *)
C13_OptionDefaultOnlyMarkedOrPending ==
    [][(Consumes /\ Honored(consumed', Len(consumed'))) =>
           LET i == Len(consumed')
               text == consumed'[i][1]
           IN  /\ (~OpenBefore.hasDefault /\ OpenAfter.hasDefault)
                      => /\ OpenAfter.default = text.name
                         /\ \/ text.flag = ", Default"
                            \/ MatchesPending(consumed', i)
               /\ OpenBefore.hasDefault
                      => /\ OpenAfter.hasDefault
                         /\ OpenAfter.default = OpenBefore.default
               /\ MapGet(OpenAfter.options, text.name, NoneVal)
                      = HexUpper(text.val)]_vars

\* the i-th record of cs is a bare default-value record under an open one-of
\* question of which at least one option has been consumed
DefaultAfterOptions(cs, i) ==
    LET q == LastQuestionBefore(cs, i)
    IN  /\ cs[i][1].kind = "default"
        /\ q # 0
        /\ cs[q][1].kind = "oneof"
        /\ \E h \in (q + 1)..(i - 1) : cs[h][1].kind = "oneofoption"

\* the models d1 and d2 have the same keys in the same order, and the same
\* entries but for the default of the entry at (varstore, varoffset)
SameButDefaultAt(d1, d2, varstore, varoffset) ==
    /\ Len(DictItems(d1)) = Len(DictItems(d2))
    /\ \A n \in 1..Len(DictItems(d1)) :
           LET a == DictItems(d1)[n]
               b == DictItems(d2)[n]
           IN  /\ a.varstore = b.varstore
               /\ a.varoffset = b.varoffset
               /\ IF a.varstore = varstore /\ a.varoffset = varoffset
                  THEN [a.e EXCEPT !.hasDefault = FALSE, !.default = "",
                                   !.ndefault = 0]
                           = [b.e EXCEPT !.hasDefault = FALSE, !.default = "",
                                         !.ndefault = 0]
                  ELSE a.e = b.e

(* C14: a bare default-value record under an open one-of question with at   *)
(* least one option consumed makes the entry's default the first option, in *)
(* the order of the options, whose raw value is the default value as 0x +   *)
(* uppercase hex; with no such option the default stays as it was; the      *)
(* options and every other entry are unchanged.                              *)
C14_DefaultPicksFirstMatchingOption ==
    [][(Consumes /\ DefaultAfterOptions(consumed', Len(consumed'))) =>
           LET value == HexUpper(consumed'[Len(consumed')][1].val)
               opts == OpenBefore.options
               hits == {n \in 1..Len(opts) : opts[n].v = value}
           IN  /\ SameButDefaultAt(dp.settings_dict, dp'.settings_dict,
                                   dp.oneof_varstore, dp.oneof_varoffset)
               /\ OpenAfter.options = opts
               /\ hits # {} =>
                      /\ OpenAfter.hasDefault
                      /\ \E n \in hits :
                             /\ \A h \in hits : n <= h
                             /\ OpenAfter.default = opts[n].k
               /\ hits = {} =>
                      /\ OpenAfter.hasDefault = OpenBefore.hasDefault
                      /\ OpenAfter.default = OpenBefore.default]_vars

C14_Witness ==
    /\ Len(consumed) = 4
    /\ DefaultAfterOptions(consumed, 4)
    /\ RecordText(2).kind = "oneofoption" /\ RecordText(2).flag = ""
    /\ RecordText(3).kind = "oneofoption" /\ RecordText(3).flag = ""
    /\ RecordText(2).name # RecordText(3).name
    /\ RecordText(2).val = RecordText(4).val
    /\ RecordText(3).val = RecordText(4).val
    /\ DictHas(dp.settings_dict, dp.oneof_varstore, dp.oneof_varoffset)
    /\ DictGet(dp.settings_dict, dp.oneof_varstore, dp.oneof_varoffset).default
           = RecordText(2).name

\* the i-th record of cs is a bare default-value record and the last question
\* record before it is a numeric question
DefaultAfterNumeric(cs, i) ==
    /\ cs[i][1].kind = "default"
    /\ LastQuestionBefore(cs, i) # 0
    /\ cs[LastQuestionBefore(cs, i)][1].kind = "numeric"

(* C15: a bare default-value record while the last open kind is numeric      *)
(* makes its integer, as given, the default of the numeric entry opened      *)
(* last, and changes nothing else in the model: every other entry, the       *)
(* one-of entries included, is as before.                                    *)
C15_NumericDefaultOnlyTouchesNumeric ==
    [][(Consumes /\ DefaultAfterNumeric(consumed', Len(consumed'))) =>
           LET i == Len(consumed')
               q == consumed'[LastQuestionBefore(consumed', i)][1]
               after == DictGet(dp'.settings_dict, dp.numeric_varstore,
                                dp.numeric_varoffset)
           IN  /\ dp.numeric_varoffset = "0x" \o q.off
               /\ DictHas(dp'.settings_dict, dp.numeric_varstore,
                          dp.numeric_varoffset)
               /\ after.type = "numeric"
               /\ after.name = q.name
               /\ after.hasDefault
               /\ after.ndefault = consumed'[i][1].val
               /\ SameButDefaultAt(dp.settings_dict, dp'.settings_dict,
                                   dp.numeric_varstore, dp.numeric_varoffset)]_vars

C15_Witness ==
    /\ Len(consumed) = 3
    /\ RecordText(1).kind = "oneof"
    /\ RecordText(2).kind = "numeric"
    /\ RecordText(1).off # RecordText(2).off
    /\ RecordText(3).kind = "default"
    /\ RecordText(3).val > RecordText(2).max
    /\ RecordText(2).min <= RecordText(2).max
    /\ ~DictGet(dp.settings_dict, dp.oneof_varstore, dp.oneof_varoffset).hasDefault
    /\ DictGet(dp.settings_dict, dp.numeric_varstore, dp.numeric_varoffset).ndefault
           = RecordText(3).val

\* the store name a question that is the i-th record of cs is filed under when
\* only the declarations before it count: the name of the last declaration of
\* its store id before it, the placeholder when there is none
FiledUnder(cs, i) ==
    LET ds == {j \in 1..(i - 1) :
                  cs[j][1].kind = "varstore" /\ cs[j][1].sid = cs[i][1].sid}
    IN  IF ds = {} THEN "None"
        ELSE cs[CHOOSE j \in ds : \A h \in ds : h <= j][1].name

(* C16, as claimed: a question record is filed under the name of the store  *)
(* its id refers to, whether the declaration of that store comes before or  *)
(* after the question in the record sequence.                                *)
C16_FiledUnderDeclaredStore ==
    \A i \in 1..Len(consumed) : \A j \in 1..Len(consumed) :
        (/\ RecordText(i).kind \in QuestionKinds
         /\ RecordText(j).kind = "varstore"
         /\ RecordText(j).sid = RecordText(i).sid)
            => DictHas(dp.settings_dict, RecordText(j).name,
                       "0x" \o RecordText(i).off)

(* C16, amended: a question record is filed under the name of the last      *)
(* declaration of its store id that comes before it, and under the           *)
(* placeholder "None" when no declaration comes before it; a declaration     *)
(* that comes after the question changes nothing in the model.               *)
C16_FiledUnderEarlierDeclarationOnly ==
    [][Consumes =>
           LET i == Len(consumed')
               text == consumed'[i][1]
               store == FiledUnder(consumed', i)
           IN  /\ text.kind \in QuestionKinds =>
                      /\ DictHas(dp'.settings_dict, store, "0x" \o text.off)
                      /\ DictGet(dp'.settings_dict, store,
                                 "0x" \o text.off).type = text.kind
                      /\ \A other \in {"None", "Setup"} \ {store} :
                             DictHas(dp'.settings_dict, other, "0x" \o text.off)
                                 => DictHas(dp.settings_dict, other,
                                            "0x" \o text.off)
               /\ text.kind = "varstore" =>
                      dp'.settings_dict = dp.settings_dict]_vars

C16_Witness ==
    /\ Len(consumed) = 4
    /\ RecordText(1).kind = "checkbox"
    /\ RecordText(2).kind = "varstore"
    /\ RecordText(2).sid = RecordText(1).sid
    /\ RecordText(3).kind = "numeric"
    /\ RecordText(3).sid = RecordText(1).sid
    /\ RecordText(3).off # RecordText(1).off
    /\ RecordText(4).kind = "checkbox"
    /\ DictHas(dp.settings_dict, "None", "0x" \o RecordText(1).off)
    /\ DictHas(dp.settings_dict, "Setup", "0x" \o RecordText(1).off)
    /\ ~DictHas(dp.settings_dict, "None", "0x" \o RecordText(3).off)
    /\ DictHas(dp.settings_dict, "Setup", "0x" \o RecordText(3).off)

\* the widgets are those table_population made for the model held: the user
\* has changed no selection since the file was loaded
NoEditSinceLoad ==
    /\ ~settings_none
    /\ settings_dict # <<>>
    /\ widgets = table_population(Table(<<>>, <<>>, <<>>, TRUE),
                                  settings_dict).widgets

(* C17, as claimed: the script exported right after a file is loaded, with  *)
(* no user edit in between, holds no write directive, also when a numeric   *)
(* setting's stored default lies outside [min, max].                         *)
C17_LoadThenExportWritesNothing ==
    (script.written /\ NoEditSinceLoad) => WritePositions = {}

(* C18, as claimed: an option record without the default marker becomes the *)
(* default of its question only when a bare default-value record of the     *)
(* same raw value came after that question record and before its first      *)
(* option; a value stashed under an earlier one-of question never decides   *)
(* the default of a later one, also when both have the same name.            *)
C18_UnmarkedDefaultOnlyFromOwnPending ==
    [][(/\ Consumes
        /\ Honored(consumed', Len(consumed'))
        /\ consumed'[Len(consumed')][1].flag = ""
        /\ ~OpenBefore.hasDefault
        /\ OpenAfter.hasDefault)
           => MatchesPending(consumed', Len(consumed'))]_vars

\* the records of the file being read hold a one-of question that is followed
\* by no honored option record
OneOfWithoutOptions(cs) ==
    \E i \in 1..Len(cs) :
        /\ cs[i][1].kind = "oneof"
        /\ \A h \in (i + 1)..Len(cs) : ~Honored(cs, h)

(* C19, as claimed: a one-of question record followed by no honored option  *)
(* record yields a OneOf entry with an options mapping that is present and  *)
(* empty and with no default, and loading such a file completes: every      *)
(* entry gets its row and the model is handed to the compiler.               *)
C19_OneOfWithoutOptionsLoads ==
    [][(FileRead /\ pf.pattern_found /\ OneOfWithoutOptions(parse_flush(pf))) =>
           /\ pc' = "idle"
           /\ ~settings_none'
           /\ settings_dict' = dict_population(parse_flush(pf))
           /\ Len(table_data') = Len(DictItems(settings_dict'))
           /\ \A n \in 1..Len(DictItems(settings_dict')) :
                  LET e == DictItems(settings_dict')[n].e IN
                  e.type = "oneof" => e.hasOptions]_vars

(* C20: after every record of any record sequence, every OneOf entry that  *)
(* has a default has it equal to a label that is a key of the options       *)
(* mapping of that same entry.                                               *)
C20_OneOfDefaultIsAnOption ==
    \A n \in 1..Len(DictItems(dp.settings_dict)) :
        LET e == DictItems(dp.settings_dict)[n].e IN
        (e.type = "oneof" /\ e.hasDefault) =>
            /\ e.hasOptions
            /\ \E h \in 1..Len(e.options) : e.options[h].k = e.default

C20_Witness ==
    /\ Len(consumed) = 4
    /\ RecordText(4).kind = "default"
    /\ \E n \in 1..Len(DictItems(dp.settings_dict)) :
           LET e == DictItems(dp.settings_dict)[n].e IN
           /\ e.type = "oneof"
           /\ e.hasDefault
           /\ Len(e.options) = 2
           /\ e.default = e.options[2].k

=============================================================================
